---------------------------- MODULE Spec2Model ----------------------------
(***************************************************************************)
(* Model of src/src/components/new-signup-form.js:                         *)
(*   - the expandable panel (default export): a boolean `open`, two        *)
(*     useTransition hooks driven through refs by useChain, a measured     *)
(*     height spring and the toggle button;                                *)
(*   - the exported hook usePrevious;                                      *)
(*   - the (commented out) SignupForm.handleSubmit.                        *)
(*                                                                         *)
(* The panel is written against react-spring 8 (useTransition(items, keys, *)
(* config) returning {item, key, props}) and react-use-measure.  What the  *)
(* component asks of them is modelled at the call sites:                   *)
(*   useTransition with a ref: every item of the hook owns one controller; *)
(*     a render only queues the item's new target (enter / leave), and the *)
(*     queue is applied when the hook's ref is started; a leaving item     *)
(*     stays in the hook's list until all the hook's controllers are idle; *)
(*   useChain: an effect after every render; when the array of refs differs*)
(*     from the previous render's it starts the refs one after the other   *)
(*     (each when the one before reports completion), and when it is       *)
(*     element-wise the same it starts every ref at once;                  *)
(*   useMeasure: a state holding the last observed bounds of the element   *)
(*     the ref is attached to, initially all zero; an observation that     *)
(*     differs re-renders the component.                                   *)
(* Opacity and height are discretised: a spring with clamp moves one level *)
(* per animation frame toward its goal and never overshoots.  A render and *)
(* the effects that follow its commit are one step.                        *)
(***************************************************************************)
EXTENDS Integers, Sequences, FiniteSets, TLC

\* ------------------------------------------------------------------ bounds
\* Number of opacity levels above 0; level MaxOp is CSS opacity 1.
MaxOp == 2
\* Largest layout height of a content layer.
MaxH == 2
\* Number of toggle clicks explored.
MaxToggles == 4
\* Number of times the browser lays a layer out with a new height.
MaxResizes == 1
\* Number of renders of a component using usePrevious.
MaxRenders == 4
\* Longest email address typed into the signup form.
MaxEmailLen == 6

VARIABLES
    open,        \* React.useState(false): the PanelState
    label,       \* text of the button as last rendered
    clicks,      \* number of clicks handled so far
    ctl,         \* [hook, item] -> controller of that item in that useTransition
    chainWait,   \* hook -> a useChain promise chain waits for it to rest
    previous,    \* useChain's previous.current: refs of the last render
    bounds,      \* layer -> height last reported by useMeasure
    layout,      \* layer -> height the browser lays the layer out with
    resizes,     \* number of layout changes so far
    height,      \* current value of containerSpring.height
    heightGoal,  \* target of containerSpring
    \* usePrevious
    pvRef,       \* ref.current
    pvDeps,      \* dependency list of the effect's last run
    pvReturned,  \* what the hook returned on the last render
    pvHist,      \* the values passed, one per render
    \* SignupForm
    email,       \* useState("") email
    error,       \* useState("") error
    formState,   \* useState("") formState
    awaiting,    \* handleSubmit is suspended at its await
    fetchState,  \* the POST: none, pending, ok, notOk, rejected
    timerFired   \* setTimeout(resolve, feedbackDelay) has fired

panelVars == <<open, label, clicks, ctl, chainWait, previous, bounds, layout,
               resizes, height, heightGoal>>
prevVars == <<pvRef, pvDeps, pvReturned, pvHist>>
formVars == <<email, error, formState, awaiting, fetchState, timerFired>>
vars == <<panelVars, prevVars, formVars>>

\* --------------------------------------------------------------- constants
Hooks == {"openSpring", "closedSpring"}
Items == {"open", "closed"}
CtlKeys == Hooks \X Items

OtherHook(h) == IF h = "openSpring" THEN "closedSpring" ELSE "openSpring"

\* let state = open ? "open" : "closed"
StateOf(o) == IF o THEN "open" ELSE "closed"

\* from / leave: { opacity: 0 };  initial / enter: { opacity: 1 }
FromOpacity == 0
LeaveOpacity == 0
EnterOpacity == MaxOp
InitialOpacity == MaxOp

\* useMeasure's initial bounds: height 0
InitialBounds == 0

NoCtl == [st |-> "absent", val |-> 0, goal |-> 0, q |-> {}, act |-> FALSE]

\* ------------------------------------------------------------ useTransition
\* diffItems for one key of one hook, given the item passed on this render.
\* unique: true keeps one controller per key, so a key that comes back while
\* it is leaving is taken out of the deleted list and keeps its value.
\* Three faulty variants, against which the properties below are also run:
\* enter: { opacity: 0 }; a returning item that is not given its enter target
\* again; from: { opacity: 1 }, an item that mounts already opaque.
NoEnterDiffItem(c, k, item) ==
    IF k = item
    THEN IF c.st = "current" THEN c
         ELSE IF c.st = "deleted"
              THEN [c EXCEPT !.st = "current", !.q = {FromOpacity}]
              ELSE [st |-> "current", val |-> FromOpacity, goal |-> FromOpacity,
                    q |-> {FromOpacity}, act |-> FALSE]
    ELSE IF c.st = "current"
         THEN [c EXCEPT !.st = "deleted", !.q = {LeaveOpacity}]
         ELSE IF c.st = "deleted" THEN [c EXCEPT !.q = {LeaveOpacity}]
              ELSE c

NoRetargetDiffItem(c, k, item) ==
    IF k = item
    THEN IF c.st = "current" THEN c
         ELSE IF c.st = "deleted"
              THEN [c EXCEPT !.st = "current", !.q = {}]
              ELSE [st |-> "current", val |-> FromOpacity, goal |-> FromOpacity,
                    q |-> {EnterOpacity}, act |-> FALSE]
    ELSE IF c.st = "current"
         THEN [c EXCEPT !.st = "deleted", !.q = {LeaveOpacity}]
         ELSE IF c.st = "deleted" THEN [c EXCEPT !.q = {LeaveOpacity}]
              ELSE c

LeakyDiffItem(c, k, item) ==
    IF k = item
    THEN IF c.st = "current" THEN c
         ELSE IF c.st = "deleted"
              THEN [c EXCEPT !.st = "current", !.q = {EnterOpacity}]
              ELSE [st |-> "current", val |-> EnterOpacity, goal |-> EnterOpacity,
                    q |-> {EnterOpacity}, act |-> FALSE]
    ELSE IF c.st = "current"
         THEN [c EXCEPT !.st = "deleted", !.q = {LeaveOpacity}]
         ELSE IF c.st = "deleted" THEN [c EXCEPT !.q = {LeaveOpacity}]
              ELSE c

DiffItem(c, k, item) ==
    IF k = item
    THEN IF c.st = "current" THEN c
         ELSE IF c.st = "deleted"
              THEN [c EXCEPT !.st = "current", !.q = {EnterOpacity}]
              ELSE [st |-> "current", val |-> FromOpacity, goal |-> FromOpacity,
                    q |-> {EnterOpacity}, act |-> FALSE]
    ELSE IF c.st = "current"
         THEN [c EXCEPT !.st = "deleted", !.q = {LeaveOpacity}]
         ELSE IF c.st = "deleted" THEN [c EXCEPT !.q = {LeaveOpacity}]
              ELSE c

\* Both hooks are given the same item (state) on every render.
\* (variant: the closed hook is always given "closed")
PinnedUseTransitions(c, o) ==
    [hk \in CtlKeys |->
        DiffItem(c[hk], hk[2],
                 IF hk[1] = "closedSpring" THEN "closed" ELSE StateOf(o))]

UseTransitions(c, o) ==
    [hk \in CtlKeys |-> DiffItem(c[hk], hk[2], StateOf(o))]

\* ref.current.start(): every controller of the hook applies its queue.
StartCtl(c) ==
    IF c.st # "absent" /\ c.q # {}
    THEN [c EXCEPT !.goal = CHOOSE g \in c.q : TRUE, !.q = {}, !.act = TRUE]
    ELSE c

StartHooks(c, hs) ==
    [hk \in CtlKeys |-> IF hk[1] \in hs THEN StartCtl(c[hk]) ELSE c[hk]]

HookActive(c, h) == \E k \in Items : c[<<h, k>>].act

\* ----------------------------------------------------------------- useChain
\* open ? [closedSpringRef, openSpringRef] : [openSpringRef, closedSpringRef]
ChainOrder(o) ==
    IF o THEN <<"closedSpring", "openSpring">>
         ELSE <<"openSpring", "closedSpring">>

\* The hooks the effect starts at once.
ChainStarts(refs, prev) ==
    IF refs = prev THEN {refs[1], refs[2]} ELSE {refs[1]}

\* The promise chains waiting after the effect: a new chain waits for its
\* first ref; chains of earlier renders are not cancelled.
ChainWaits(w, refs, prev) ==
    IF refs = prev THEN w ELSE [w EXCEPT ![refs[1]] = TRUE]

\* ---------------------------------------------------------------- rendering
\* Which layer each hook renders: item === "closed" of closedSpringTransitions,
\* item === "open" of openSpringTransitions.
LayerKey(layer) ==
    IF layer = "closed" THEN <<"closedSpring", "closed">>
                        ELSE <<"openSpring", "open">>

Mounted(c, layer) == c[LayerKey(layer)].st # "absent"
Opacity(c, layer) == c[LayerKey(layer)].val

\* let finalHeight = open ? openBounds.height : closedBounds.height
\* (faulty variant: the two bounds swapped)
StaleFinalHeight(o, b) == IF o THEN b["closed"] ELSE b["open"]

FinalHeight(o, b) == IF o THEN b["open"] ELSE b["closed"]

\* {open ? "Close" : "Open"}
\* (faulty variant: the label follows the open text's fade)
FadeLabel(o, c) == IF Mounted(c, "open") /\ Opacity(c, "open") = MaxOp
                   THEN "Close" ELSE "Open"

Label(o, c) == IF o THEN "Close" ELSE "Open"

\* One render of the component followed by its effects, from PanelState o,
\* controllers c, waiting chains w and bounds b.
Render(o, c, w, b) ==
    \E c1 \in {UseTransitions(c, o)} :
        /\ ctl' = StartHooks(c1, ChainStarts(ChainOrder(o), previous))
        /\ chainWait' = ChainWaits(w, ChainOrder(o), previous)
        /\ previous' = ChainOrder(o)
        /\ heightGoal' = FinalHeight(o, b)
        /\ label' = Label(o, c1)

\* -------------------------------------------------------------------- Init
\* The first render: items appear with `initial` as their from-value and
\* enter as their target; previous.current is undefined, so the effect
\* builds a chain.
FirstCtl ==
    [hk \in CtlKeys |->
        IF hk[2] = StateOf(FALSE)
        THEN [st |-> "current", val |-> InitialOpacity, goal |-> InitialOpacity,
              q |-> {EnterOpacity}, act |-> FALSE]
        ELSE NoCtl]

PanelInit ==
    /\ open = FALSE
    /\ clicks = 0
    /\ label = Label(FALSE, FirstCtl)
    /\ ctl = StartHooks(FirstCtl, ChainStarts(ChainOrder(FALSE), <<>>))
    /\ chainWait = ChainWaits([h \in Hooks |-> FALSE], ChainOrder(FALSE), <<>>)
    /\ previous = ChainOrder(FALSE)
    /\ bounds = [l \in Items |-> InitialBounds]
    /\ layout \in [Items -> 1..MaxH]
    /\ resizes = 0
    /\ height = FinalHeight(FALSE, [l \in Items |-> InitialBounds])
    /\ heightGoal = FinalHeight(FALSE, [l \in Items |-> InitialBounds])

\* ----------------------------------------------------------------- actions
\* <button onClick={() => set(!open)}>   (faulty variant: set(true))
StuckOpen(o) == TRUE

NextOpen(o) == ~o

Toggle ==
    /\ clicks < MaxToggles
    /\ open' = NextOpen(open)
    /\ clicks' = clicks + 1
    /\ Render(open', ctl, chainWait, bounds)
    /\ UNCHANGED <<bounds, layout, resizes, height, prevVars, formVars>>

\* The resize observer of useMeasure reports a mounted layer's height; a
\* value that differs from the state re-renders the component.
Measure(layer) ==
    /\ Mounted(ctl, layer)
    /\ bounds[layer] # layout[layer]
    /\ bounds' = [bounds EXCEPT ![layer] = layout[layer]]
    /\ Render(open, ctl, chainWait, bounds')
    /\ UNCHANGED <<open, clicks, layout, resizes, height, prevVars, formVars>>

\* A clamped spring moves toward its goal and stops on it.
Step(v, g) == IF v < g THEN v + 1 ELSE IF v > g THEN v - 1 ELSE v

StepCtl(c) ==
    IF c.act
    THEN [c EXCEPT !.val = Step(c.val, c.goal),
                   !.act = (Step(c.val, c.goal) # c.goal)]
    ELSE c

\* onRest of a controller: once no controller of the hook is active, the
\* hook drops its deleted items (cleanUp) and forces a render.
Rested(c0, c1, h) ==
    /\ \E k \in Items : c0[<<h, k>>].act /\ ~c1[<<h, k>>].act
    /\ ~HookActive(c1, h)

CleanUp(c0, c1) ==
    [hk \in CtlKeys |->
        IF Rested(c0, c1, hk[1]) /\ c1[hk].st = "deleted" THEN NoCtl ELSE c1[hk]]

Cleaned(c0, c1) ==
    \E hk \in CtlKeys : Rested(c0, c1, hk[1]) /\ c1[hk].st = "deleted"

\* Nothing is left for the frame loop to do: no spring runs and no chain
\* waits for one.
Still ==
    /\ \A hk \in CtlKeys : ~ctl[hk].act
    /\ \A h \in Hooks : ~chainWait[h]
    /\ height = heightGoal

\* One animation frame: every running spring advances (c1); the hooks that
\* came to rest resolve the chains waiting for them (done), which start the
\* next ref (c2, w2); a hook that came to rest with deleted items cleans up
\* and forces a render.
Frame ==
    /\ ~Still
    /\ \E c1 \in {[hk \in CtlKeys |-> StepCtl(ctl[hk])]} :
       \E done \in {{h \in Hooks : chainWait[h] /\ ~HookActive(c1, h)}} :
       \E c2 \in {StartHooks(c1, {OtherHook(h) : h \in done})} :
       \E w2 \in {[h \in Hooks |-> chainWait[h] /\ h \notin done]} :
          IF Cleaned(ctl, c2)
          THEN Render(open, CleanUp(ctl, c2), w2, bounds)
          ELSE /\ ctl' = c2
               /\ chainWait' = w2
               /\ UNCHANGED <<previous, heightGoal, label>>
    /\ height' = Step(height, heightGoal)
    /\ UNCHANGED <<open, clicks, bounds, layout, resizes, prevVars, formVars>>

\* The content of a layer is laid out with a new height (the viewport
\* changes width); useMeasure learns of it only through Measure.
Resize(layer) ==
    /\ resizes < MaxResizes
    /\ \E h \in 1..MaxH :
          /\ h # layout[layer]
          /\ layout' = [layout EXCEPT ![layer] = h]
    /\ resizes' = resizes + 1
    /\ UNCHANGED <<open, label, clicks, ctl, chainWait, previous, bounds,
                   height, heightGoal, prevVars, formVars>>

PanelNext ==
    \/ Toggle
    \/ \E layer \in Items : Measure(layer)
    \/ \E layer \in Items : Resize(layer)
    \/ Frame

\* ------------------------------------------------------------- usePrevious
Values == {"a", "b", "c"}
Undefined == "undefined"

\* React.useEffect(..., [value]): the effect runs after the first render and
\* after every render whose value differs from the one of its last run.
\* (faulty variant: an empty dependency list)
MountOnlyEffectRuns(first, deps, value) == first

EffectRuns(first, deps, value) == first \/ value # deps

\* One committed render of a component calling usePrevious(value), with the
\* effects that follow the commit.
PrevRender(value) ==
    /\ Len(pvHist) < MaxRenders
    /\ pvReturned' = pvRef
    /\ IF EffectRuns(pvHist = <<>>, pvDeps, value)
       THEN pvRef' = value /\ pvDeps' = value
       ELSE UNCHANGED <<pvRef, pvDeps>>
    /\ pvHist' = Append(pvHist, value)
    /\ UNCHANGED <<panelVars, formVars>>

PrevInit ==
    /\ pvRef = Undefined
    /\ pvDeps = Undefined
    /\ pvReturned = Undefined
    /\ pvHist = <<>>

PrevNext == \E value \in Values : PrevRender(value)

\* -------------------------------------------------------------- SignupForm
\* Characters an address is typed from: a letter, the at sign, the dot.
Alphabet == {"a", "@", "."}

\* [^<>()[\]\\.,;:\s@\"]+(\.[^<>()[\]\\.,;:\s@\"]+)*  over the alphabet:
\* letters in runs separated by single dots.
DottedAtoms(s) ==
    /\ s # <<>>
    /\ \A i \in 1..Len(s) : s[i] \in {"a", "."}
    /\ s[1] # "."
    /\ s[Len(s)] # "."
    /\ \A i \in 1..(Len(s) - 1) : ~(s[i] = "." /\ s[i + 1] = ".")

\* ([a-zA-Z\-0-9]+\.)+[a-zA-Z]{2,}: at least two labels, the last of two
\* letters or more.
DomainName(s) ==
    /\ DottedAtoms(s)
    /\ \E i \in 1..Len(s) : s[i] = "."
    /\ Len(s) >= 2
    /\ s[Len(s)] = "a" /\ s[Len(s) - 1] = "a"

isEmailValid(s) ==
    \E i \in 1..Len(s) :
        /\ s[i] = "@"
        /\ DottedAtoms(SubSeq(s, 1, i - 1))
        /\ DomainName(SubSeq(s, i + 1, Len(s)))

isError == formState = "error"

\* handleChange: setEmail(event.target.value); the two resets read the email
\* of the render the handler was created in.
handleChange(value) ==
    /\ formState \notin {"saving", "finished"}
    /\ email' = value
    /\ IF \/ isError /\ error = "invalidEmail" /\ isEmailValid(email)
          \/ isError /\ error = "noEmail" /\ email # <<>>
       THEN error' = "" /\ formState' = ""
       ELSE UNCHANGED <<error, formState>>
    /\ UNCHANGED <<awaiting, fetchState, timerFired, panelVars, prevVars>>

Typed(s) ==
    {Append(s, ch) : ch \in IF Len(s) < MaxEmailLen THEN Alphabet ELSE {}}
        \cup (IF s = <<>> THEN {} ELSE {SubSeq(s, 1, Len(s) - 1)})

\* handleSubmit up to its await.
handleSubmit ==
    /\ ~awaiting
    /\ formState \notin {"saving", "finished"}
    /\ IF email = <<>>
       THEN /\ error' = "noEmail" /\ formState' = "error"
            /\ UNCHANGED <<awaiting, fetchState, timerFired>>
       ELSE IF ~isEmailValid(email)
       THEN /\ error' = "invalidEmail" /\ formState' = "error"
            /\ UNCHANGED <<awaiting, fetchState, timerFired>>
       ELSE /\ formState' = "saving"
            /\ awaiting' = TRUE
            /\ fetchState' = "pending"
            /\ timerFired' = FALSE
            /\ UNCHANGED error
    /\ UNCHANGED <<email, panelVars, prevVars>>

\* await Promise.all([postData, waitForFeedback]): fulfilled once both are,
\* rejected as soon as one is.
AllSettled(f, t) == f = "rejected" \/ (f \in {"ok", "notOk"} /\ t)

\* The rest of handleSubmit, run when the awaited promise settles.
Resume(f, t) ==
    IF AllSettled(f, t)
    THEN /\ awaiting' = FALSE
         /\ IF f = "ok"
            THEN formState' = "finished" /\ UNCHANGED error
            ELSE error' = "serverError" /\ formState' = "error"
    ELSE UNCHANGED <<awaiting, error, formState>>

\* The POST settles: a response (ok or not) or a rejection.
FetchSettles(outcome) ==
    /\ awaiting
    /\ fetchState = "pending"
    /\ fetchState' = outcome
    /\ Resume(outcome, timerFired)
    /\ UNCHANGED <<email, timerFired, panelVars, prevVars>>

\* setTimeout(resolve, feedbackDelay) fires.
TimerFires ==
    /\ awaiting
    /\ ~timerFired
    /\ timerFired' = TRUE
    /\ Resume(fetchState, TRUE)
    /\ UNCHANGED <<email, fetchState, panelVars, prevVars>>

FormInit ==
    /\ email = <<>>
    /\ error = ""
    /\ formState = ""
    /\ awaiting = FALSE
    /\ fetchState = "none"
    /\ timerFired = FALSE

FormNext ==
    \/ \E value \in Typed(email) : handleChange(value)
    \/ handleSubmit
    \/ \E outcome \in {"ok", "notOk", "rejected"} : FetchSettles(outcome)
    \/ TimerFires

\* ---------------------------------------------------------- specifications
\* The panel.
Init == PanelInit /\ PrevInit /\ FormInit
Next == PanelNext
Spec == Init /\ [][Next]_vars

\* The panel under the browser's scheduling: while a spring runs or a chain
\* waits, animation frames keep coming (requestAnimationFrame).  This is
\* WF_vars(Frame), as in LiveSpecWF, written out in the form TLC evaluates
\* fastest: Frame is enabled exactly when the panel is not Still
\* (FrameEnabledWhenMoving) and the Frame steps are the steps that leave
\* clicks, bounds and layout alone (FrameStepsKeepInputs).
FrameStep == UNCHANGED <<clicks, bounds, layout>>
LiveSpec ==
    /\ Init
    /\ [][Next]_vars
    /\ ([]<>Still \/ []<><<FrameStep>>_vars)

LiveSpecWF == Init /\ [][Next]_vars /\ WF_vars(Frame)

FrameEnabledWhenMoving == (ENABLED <<Frame>>_vars) <=> ~Still

FrameStepsKeepInputs == [][Frame <=> FrameStep]_vars

\* A component calling usePrevious, beside a panel that is left alone.
QuietInit == Init /\ \A layer \in Items : layout[layer] = 1
PrevSpec == QuietInit /\ [][PrevNext]_vars

\* The signup form, beside a panel that is left alone.
FormSpec == QuietInit /\ [][FormNext]_vars

\* ------------------------------------------------------------- properties
OtherLayer(layer) == IF layer = "open" THEN "closed" ELSE "open"
Visible(layer) == Mounted(ctl, layer) /\ Opacity(ctl, layer) > 0
Full(layer) == Mounted(ctl, layer) /\ Opacity(ctl, layer) = MaxOp
MidFade(layer) ==
    Mounted(ctl, layer) /\ Opacity(ctl, layer) > 0 /\ Opacity(ctl, layer) < MaxOp

\* C1: in every rest state (no fade and no height animation in flight, no
\* chained fade waiting to start) the layer matching PanelState is at full
\* opacity and the other layer is not visible.
C1_RestShowsStateLayer ==
    Still => Full(StateOf(open)) /\ ~Visible(OtherLayer(StateOf(open)))

\* C1 witness: the panel rests OPEN after three clicks with the open text
\* fully opaque.
C1_Witness == Still /\ open /\ clicks = 3 /\ Full("open")

\* C2: after a toggle the incoming layer's fade-in does not start until the
\* outgoing layer's fade-out has completed: in a step in which the fade-in
\* of the layer matching PanelState starts, the other layer is no longer
\* visible.
FadeInStarts(layer) ==
    /\ ctl'[LayerKey(layer)].act
    /\ ctl'[LayerKey(layer)].goal = EnterOpacity
    /\ ctl'[LayerKey(layer)].val < EnterOpacity
    /\ ~(ctl[LayerKey(layer)].act /\ ctl[LayerKey(layer)].goal = EnterOpacity)

C2_FadeInAfterFadeOut ==
    [][\A layer \in Items :
          (StateOf(open') = layer /\ FadeInStarts(layer))
              => ~(Mounted(ctl', OtherLayer(layer))
                   /\ Opacity(ctl', OtherLayer(layer)) > 0)]_vars

\* C3: in every reachable state, in the middle of a transition and after
\* toggling again in flight included, the two layers are never both at full
\* opacity.
C3_NeverBothFull == ~(Full("open") /\ Full("closed"))

\* C3 witness: after a second click made in flight both layers are mounted
\* and both are part-way through their fades.
C3_Witness == clicks >= 2 /\ MidFade("open") /\ MidFade("closed")

\* C4: last toggle wins: whatever toggles arrive in flight, once they stop
\* the panel reaches, and stays in, a rest state where the layer of the
\* final PanelState is fully opaque, no layer is at an intermediate opacity
\* and the other layer is not visible.
Settled ==
    /\ Still
    /\ Full(StateOf(open))
    /\ ~Visible(OtherLayer(StateOf(open)))
    /\ \A layer \in Items : ~MidFade(layer)

C4_LastToggleWins == <>[]Settled

\* C4 witness: a double toggle before settling: the second click arrives
\* while the chain of the first still waits and the closed text is part-way
\* out; it is being faded back in.
C4_Witness ==
    /\ clicks = 2 /\ ~open
    /\ MidFade("closed")
    /\ ctl[LayerKey("closed")].act
    /\ ctl[LayerKey("closed")].goal = EnterOpacity
    /\ Mounted(ctl, "open")
    /\ chainWait["openSpring"]

\* C5: when the panel is at rest and the resize observer has nothing left to
\* report, the container height is the layout height of the layer selected
\* by PanelState, also when the bounds were stale when the toggle was handled.
Measured == \A layer \in Items : Mounted(ctl, layer) => bounds[layer] = layout[layer]

C5_RestHeightIsActiveLayer ==
    (Still /\ Measured) => height = layout[StateOf(open)]

\* C5 witness: rest after the first click: openBounds was still the initial
\* zero when the click was rendered, and the height has since reached the
\* open layer's height.
C5_Witness ==
    /\ Still /\ Measured /\ open /\ clicks = 1
    /\ height = layout["open"] /\ layout["open"] # layout["closed"]

\* C6: PanelState starts CLOSED, every click flips it and nothing else
\* changes it: it is OPEN exactly when the number of clicks is odd.
C6_OpenIffOddClicks == open <=> (clicks % 2 = 1)

\* C6 witness: OPEN after three clicks, with a fade still in flight.
C6_Witness == open /\ clicks = 3 /\ ~Still

\* C7: the button reads "Open" exactly when PanelState is CLOSED and "Close"
\* exactly when it is OPEN, whatever the progress of the fades.
C7_LabelFollowsState ==
    /\ (label = "Open") <=> ~open
    /\ (label = "Close") <=> open

\* C7 witness: right after a click the label already reads "Close" while the
\* open text is still invisible and the closed text still fully opaque.
C7_Witness ==
    open /\ label = "Close" /\ Full("closed") /\ ~Visible("open")

\* C8: in every rest state exactly one content layer is mounted, the one
\* matching PanelState (so both are mounted together only during a
\* transition), and an outgoing layer stays mounted only while its hook
\* still animates or its leave is still queued behind the chain.
C8_RestMountsOneLayer ==
    /\ Still => /\ Mounted(ctl, StateOf(open))
                /\ ~Mounted(ctl, OtherLayer(StateOf(open)))
    /\ \A layer \in Items :
          ctl[LayerKey(layer)].st = "deleted"
              => \/ HookActive(ctl, LayerKey(layer)[1])
                 \/ ctl[LayerKey(layer)].q # {}

\* C8 witness: back at rest CLOSED after two clicks: the open layer, mounted
\* during the transitions, is unmounted again.
C8_Witness ==
    Still /\ ~open /\ clicks = 2 /\ Mounted(ctl, "closed") /\ ~Mounted(ctl, "open")

\* C9: once a valid email is submitted, neither "finished" nor "serverError"
\* is surfaced before the feedback delay has elapsed, whatever the outcome
\* of the POST.
C9_FeedbackDelayFirst ==
    (formState = "finished" \/ (formState = "error" /\ error = "serverError"))
        => timerFired

\* C10: usePrevious returns undefined on the first render and on every later
\* render the value passed on the preceding render.
C10_ReturnsPrecedingValue ==
    /\ Len(pvHist) = 1 => pvReturned = Undefined
    /\ Len(pvHist) > 1 => pvReturned = pvHist[Len(pvHist) - 1]

\* C10 witness: a third render with a new value, after two renders with the
\* same value, returns that earlier value and not the new one.
C10_Witness ==
    /\ Len(pvHist) = 3
    /\ pvHist[1] = pvHist[2] /\ pvHist[3] # pvHist[2]
    /\ pvReturned = pvHist[2] /\ pvReturned # pvHist[3]

=============================================================================
